---- MODULE Spec2Model ----
(***************************************************************************)
(* Evidence resource lifecycle of turbinia: the RawDisk /                  *)
(* GoogleCloudDisk / GoogleCloudDiskRawEmbedded preprocess and postprocess *)
(* chains of turbinia/evidence.py and the loop-device / mount helpers of   *)
(* turbinia/processors/mount_local.py, run by concurrent workers that      *)
(* share one host (loop devices, the mount root, cloud attachments).       *)
(*                                                                         *)
(* Three further specifications cover the rest of the package:            *)
(*   CodecSpec : serialize / evidence_decode of turbinia/evidence.py       *)
(*   JobsSpec  : create_tasks of turbinia/jobs/docker.py and tomcat.py     *)
(*   TaskSpec  : run of turbinia/workers/docker.py and strings.py          *)
(***************************************************************************)
EXTENDS Integers, Sequences, FiniteSets, TLC

\* ------------------------------------------------------------------ bounds
NumLoopDevs == 2
NumMountDirs == 2
NumCloudDevs == 1
MaxCalls == 3

\* ------------------------------------------------------------- value sets
None == "None"
\* An attribute that was never assigned (reading it raises AttributeError).
Absent == "<absent>"

\* The evidence instances: one per worker.
Evidences == {1, 2}

Variants == {"RawDisk", "GoogleCloudDisk", "GoogleCloudDiskRawEmbedded"}
CloudVariants == {"GoogleCloudDisk", "GoogleCloudDiskRawEmbedded"}

LoopDevNames == <<"/dev/loop0", "/dev/loop1", "/dev/loop2", "/dev/loop3">>
LoopDevs == {LoopDevNames[i] : i \in 1..NumLoopDevs}

MountDirNames == <<"/mnt/turbiniaA", "/mnt/turbiniaB", "/mnt/turbiniaC", "/mnt/turbiniaD">>
MountDirs == {MountDirNames[i] : i \in 1..NumMountDirs}

CloudDevNames == <<"/dev/sdb", "/dev/sdc", "/dev/sdd">>
CloudDevs == {CloudDevNames[i] : i \in 1..NumCloudDevs}

DiskNames == <<"disk1", "disk2", "disk3", "disk4">>

\* Values the constructor arguments are drawn from.
SourcePaths == {None, "/tmp/disk.img"}
Partitions == {None, "1"}
EmbeddedPaths == {"img.raw"}

VARIABLES
  ev,          \* ev[e]: the attributes (__dict__) of evidence instance e
  pc,          \* pc[e]: position of the worker running a lifecycle call on e
  mount_path,  \* mount_path[e]: local variable of PreprocessMountDisk
  loops,       \* host: attached loop devices
  dirs,        \* host: directories existing under the mount root
  mounts,      \* host: mount directories with a filesystem mounted on them
  mount_root,  \* host: what MOUNT_DIR_PREFIX is: "absent", "dir" or "file"
  cloud,       \* cloud: <<disk name, device>> attachments of this host
  last,        \* last[e]: the last lifecycle call on e and how it ended
  snap,        \* snap[e]: attributes of e when its last preprocess() began
  acq,         \* acq[e]: external calls issued by the last preprocess() on e
  rel,         \* rel[e]: external calls issued by the last postprocess() on e
  ncalls,      \* lifecycle calls begun so far
  codec,       \* one serialize / evidence_decode exchange
  jobrun,      \* one create_tasks call: the job, its batch, the tasks
  taskrun,     \* one task run: the evidence, the tool, the result
  context      \* context[e]: what a copy_context call gave to instance e

vars == <<ev, pc, mount_path, loops, dirs, mounts, mount_root, cloud,
          last, snap, acq, rel, ncalls, codec, jobrun, taskrun, context>>

\* What a lifecycle call never touches.
elsewhere == <<codec, jobrun, taskrun, context>>

lifecycle == <<ev, pc, mount_path, loops, dirs, mounts, mount_root, cloud,
               last, snap, acq, rel, ncalls, context>>

host == <<loops, dirs, mounts, mount_root, cloud>>

\* One external call: op, its source argument, its target, and whether the
\* command succeeded.
Call(op, src, dst, ok) == [op |-> op, src |-> src, dst |-> dst, ok |-> ok]

\* ------------------------------------------------------------ constructors
\* Evidence.__init__ and RawDisk.__init__: path_to_disk is a copy of the
\* local_path argument; the loop device attribute that __init__ creates is
\* _loopdevice_path, while preprocess/postprocess use _losetup_device.
RawDiskInit(type, local_path, mount_partition, disk_name, embedded_path) ==
  [ type             |-> type,
    local_path       |-> local_path,
    mount_partition  |-> mount_partition,
    path_to_disk     |-> local_path,
    _loopdevice_path |-> None,
    _disk_mount_path |-> None,
    _losetup_device  |-> Absent,
    disk_name        |-> disk_name,
    embedded_path    |-> embedded_path ]

\* GoogleCloudDisk.__init__ / GoogleCloudDiskRawEmbedded.__init__: the cloud
\* fields, then RawDisk.__init__.
Construct(e, type, local_path, mount_partition, embedded_path) ==
  RawDiskInit(type, local_path, mount_partition,
              IF type \in CloudVariants THEN DiskNames[e] ELSE None,
              IF type = "GoogleCloudDiskRawEmbedded" THEN embedded_path ELSE None)

Constructions(e) ==
  { Construct(e, t, lp, mp, ep) :
      t \in Variants, lp \in SourcePaths, mp \in Partitions, ep \in EmbeddedPaths }

\* Nothing received, submitted or run yet.
NoExchange == [pc |-> "start"]
NoJobRun == [pc |-> "start"]
NoTaskRun == [pc |-> "start"]
\* No copy_context call was made on any instance.
NoContext == [e \in Evidences |-> [copied |-> FALSE]]

Init ==
  /\ codec = NoExchange
  /\ jobrun = NoJobRun
  /\ taskrun = NoTaskRun
  /\ context = NoContext
  /\ ev \in [Evidences -> UNION {Constructions(e) : e \in Evidences}]
  /\ \A e \in Evidences : ev[e] \in Constructions(e)
  /\ pc = [e \in Evidences |-> "idle"]
  /\ mount_path = [e \in Evidences |-> None]
  /\ loops = {}
  /\ dirs = {}
  /\ mounts = {}
  /\ mount_root \in {"absent", "dir", "file"}
  /\ cloud = {}
  /\ last = [e \in Evidences |-> [call |-> "construct", exc |-> "none", paired |-> FALSE]]
  /\ snap = [e \in Evidences |-> ev[e]]
  /\ acq = [e \in Evidences |-> <<>>]
  /\ rel = [e \in Evidences |-> <<>>]
  /\ ncalls = 0

\* ------------------------------------------------- how a lifecycle call ends
\* The call on e returns normally.
Return(e) ==
  /\ pc' = [pc EXCEPT ![e] = "idle"]
  /\ last' = [last EXCEPT ![e].exc = "none"]

\* The call on e raises exception exc to its caller.
Raise(e, exc) ==
  /\ pc' = [pc EXCEPT ![e] = "idle"]
  /\ last' = [last EXCEPT ![e].exc = exc]

Goto(e, label) ==
  /\ pc' = [pc EXCEPT ![e] = label]
  /\ UNCHANGED last

\* -------------------------------------------------- mount_local: outcomes
\* losetup --find: the first unused loop device, if any.
FindLoopDev(attached) ==
  LET free == {i \in 1..NumLoopDevs : LoopDevNames[i] \notin attached}
  IN IF free = {} THEN {}
     ELSE {LoopDevNames[CHOOSE i \in free : \A j \in free : i <= j]}

\* PreprocessLoSetup(source_path): what the call can do given the attached
\* loop devices.  ran: the losetup command was started; a None source makes
\* ' '.join(losetup_command) raise TypeError before the command is run.
PreprocessLoSetup(source_path, attached) ==
  IF source_path = None
    THEN { [exc |-> "TypeError", ret |-> None, ran |-> FALSE] }
    ELSE { [exc |-> "none", ret |-> d, ran |-> TRUE] : d \in FindLoopDev(attached) }
         \cup { [exc |-> "TurbiniaException", ret |-> None, ran |-> TRUE] }

\* A mkdtemp that hands out a name without creating it exclusively.
Mkdtemp_AnyName(existing) ==
  { [exc |-> "none", ret |-> d] : d \in MountDirs }
  \cup { [exc |-> "OSError", ret |-> None] }

\* tempfile.mkdtemp(prefix='turbinia', dir=mount_prefix): creates a directory
\* under a name that does not exist yet, or raises OSError.
Mkdtemp(existing) ==
  { [exc |-> "none", ret |-> d] : d \in MountDirs \ existing }
  \cup { [exc |-> "OSError", ret |-> None] }

\* Host: the partition device nodes that exist once the loop devices are
\* attached (the image behind the first loop device has a partition table).
PartitionNodes == {LoopDevNames[1] \o "p1"}

\* PreprocessMountDisk, lines 65-70:
\* '{0:s}p{1:d}'.format(losetup_device, partition_number), replaced by the
\* bare loop device when that node does not exist.
PathToPartition(losetup_device, partition_number) ==
  LET path_to_partition == losetup_device \o "p" \o partition_number
  IN IF path_to_partition \in PartitionNodes THEN path_to_partition
                                             ELSE losetup_device

\* os.path.join(self._disk_mount_path, self.embedded_path)
PathJoin(a, b) == a \o "/" \o b

\* A PostprocessUnmountPath whose raise (line 133) is not commented out.
PostprocessUnmountPath_Raises(path, mounted) ==
  IF path = None
    THEN { [exc |-> "TypeError", ok |-> FALSE, ran |-> FALSE] }
    ELSE { [exc |-> IF b THEN "none" ELSE "TurbiniaException", ok |-> b, ran |-> TRUE] :
             b \in (IF path \in mounted THEN {TRUE, FALSE} ELSE {FALSE}) }

\* PostprocessUnmountPath(mount_path), lines 127-133: a None path makes
\* ' '.join(umount_cmd) raise TypeError before the command is run; the umount
\* command can succeed only on a mounted directory, and its failure
\* (CalledProcessError) is swallowed.
PostprocessUnmountPath(path, mounted) ==
  IF path = None
    THEN { [exc |-> "TypeError", ok |-> FALSE, ran |-> FALSE] }
    ELSE { [exc |-> "none", ok |-> b, ran |-> TRUE] :
             b \in (IF path \in mounted THEN {TRUE, FALSE} ELSE {FALSE}) }

\* PostprocessUnmountPath, lines 135-139, os.rmdir(mount_path): it succeeds
\* on an existing directory nothing is mounted on; otherwise it raises
\* OSError, which is swallowed.
Rmdir(path, existing, mounted) ==
  IF path \in existing /\ path \notin mounted THEN {TRUE} ELSE {FALSE}

\* PostprocessDeleteLosetup(self._losetup_device): reading an attribute that
\* was never assigned raises AttributeError; a None device makes
\* ' '.join(losetup_cmd) raise TypeError; the losetup -d command can succeed
\* only on an attached device, and its failure (CalledProcessError) is
\* swallowed.
PostprocessDeleteLosetup(dev, attached) ==
  CASE dev = Absent -> { [exc |-> "AttributeError", ok |-> FALSE, ran |-> FALSE] }
    [] dev = None   -> { [exc |-> "TypeError", ok |-> FALSE, ran |-> FALSE] }
    [] OTHER        -> { [exc |-> "none", ok |-> b, ran |-> TRUE] :
                           b \in (IF dev \in attached THEN {TRUE, FALSE} ELSE {FALSE}) }

\* ------------------------------------------------- google_cloud: outcomes
\* PreprocessAttachDisk(disk_name): returns the block device the disk is
\* attached at (attaching it to a free device when needed), or fails.
PreprocessAttachDisk(disk_name, attachments) ==
  LET held == {a[2] : a \in {b \in attachments : b[1] = disk_name}}
      used == {a[2] : a \in attachments}
      devs == IF held # {} THEN held ELSE CloudDevs \ used
  IN { [exc |-> "none", ret |-> d] : d \in devs }
     \cup { [exc |-> "TurbiniaException", ret |-> None] }

\* PostprocessDetachDisk(disk_name, local_path): detaches the named disk, or
\* fails.
PostprocessDetachDisk(disk_name, local_path, attachments) ==
  { [exc |-> "none", left |-> {a \in attachments : a[1] # disk_name}],
    [exc |-> "TurbiniaException", left |-> attachments] }

\* ------------------------------------------------------------- preprocess
\* A worker calls ev[e].preprocess().
PreprocessBegin(e) ==
  /\ pc[e] = "idle"
  /\ ncalls < MaxCalls
  /\ ncalls' = ncalls + 1
  /\ snap' = [snap EXCEPT ![e] = ev[e]]
  /\ acq' = [acq EXCEPT ![e] = <<>>]
  /\ last' = [last EXCEPT ![e] = [call |-> "preprocess", exc |-> "running",
                                  paired |-> FALSE]]
  /\ pc' = [pc EXCEPT ![e] =
              IF ev[e].type \in CloudVariants THEN "attach" ELSE "losetup"]
  /\ UNCHANGED <<ev, mount_path, host, rel>>
  /\ UNCHANGED elsewhere

\* GoogleCloudDisk.preprocess, line 253:
\*   self.local_path = google_cloud.PreprocessAttachDisk(self.disk_name)
AttachStep(e) ==
  /\ pc[e] = "attach"
  /\ \E o \in PreprocessAttachDisk(ev[e].disk_name, cloud) :
       /\ acq' = [acq EXCEPT ![e] =
                    Append(@, Call("attach", ev[e].disk_name, o.ret, o.exc = "none"))]
       /\ IF o.exc = "none"
            THEN /\ cloud' = cloud \cup {<<ev[e].disk_name, o.ret>>}
                 /\ ev' = [ev EXCEPT ![e].local_path = o.ret]
                 /\ Goto(e, "losetup")
            ELSE /\ UNCHANGED <<cloud, ev>>
                 /\ Raise(e, o.exc)
  /\ UNCHANGED <<mount_path, loops, dirs, mounts, mount_root, snap, rel, ncalls>>
  /\ UNCHANGED elsewhere

\* RawDisk.preprocess, line 201:
\*   self._losetup_device = mount_local.PreprocessLoSetup(self.path_to_disk)
LoSetupStep(e) ==
  /\ pc[e] = "losetup"
  /\ \E o \in PreprocessLoSetup(ev[e].path_to_disk, loops) :
       /\ acq' = [acq EXCEPT ![e] =
                    IF o.ran
                      THEN Append(@, Call("losetup", ev[e].path_to_disk, o.ret,
                                          o.exc = "none"))
                      ELSE @]
       /\ IF o.exc = "none"
            THEN /\ loops' = loops \cup {o.ret}
                 /\ ev' = [ev EXCEPT ![e]._losetup_device = o.ret]
                 /\ Goto(e, "mkdtemp")
            ELSE /\ UNCHANGED <<loops, ev>>
                 /\ Raise(e, o.exc)
  /\ UNCHANGED <<mount_path, dirs, mounts, mount_root, cloud, snap, rel, ncalls>>
  /\ UNCHANGED elsewhere

\* PreprocessMountDisk, lines 47-60: the mount root must be a directory; it
\* is created when absent (os.makedirs may fail).  The result is the state
\* the root is left in, or "error" when TurbiniaException is raised.
MountPrefix(root) ==
  CASE root = "file"   -> {"error"}
    [] root = "absent" -> {"dir", "error"}
    [] root = "dir"    -> {"dir"}

\* PreprocessMountDisk, lines 47-62: the mount root, then
\*   mount_path = tempfile.mkdtemp(prefix='turbinia', dir=mount_prefix)
MkdtempStep(e) ==
  /\ pc[e] = "mkdtemp"
  /\ \E r \in MountPrefix(mount_root) :
       IF r = "error"
         THEN /\ Raise(e, "TurbiniaException")
              /\ UNCHANGED <<mount_root, dirs, mount_path>>
         ELSE /\ mount_root' = r
              /\ \E o \in Mkdtemp(dirs) :
                   IF o.exc = "none"
                     THEN /\ dirs' = dirs \cup {o.ret}
                          /\ mount_path' = [mount_path EXCEPT ![e] = o.ret]
                          /\ Goto(e, "mount")
                     ELSE /\ UNCHANGED <<dirs, mount_path>>
                          /\ Raise(e, o.exc)
  /\ UNCHANGED <<ev, loops, mounts, cloud, snap, acq, rel, ncalls>>
  /\ UNCHANGED elsewhere

\* What preprocess() does once PreprocessMountDisk has returned mp:
\* RawDisk.preprocess lines 203-205, then GoogleCloudDiskRawEmbedded.preprocess
\* line 281 (os.path.join raises on a None embedded_path).
Publish(e, mp) ==
  IF ev[e].type = "GoogleCloudDiskRawEmbedded"
    THEN IF ev[e].embedded_path = None
           THEN /\ ev' = [ev EXCEPT ![e]._disk_mount_path = mp,
                                    ![e].local_path = mp]
                /\ Raise(e, "AttributeError")
           ELSE /\ ev' = [ev EXCEPT ![e]._disk_mount_path = mp,
                                    ![e].local_path = PathJoin(mp, ev[e].embedded_path)]
                /\ Return(e)
    ELSE /\ ev' = [ev EXCEPT ![e]._disk_mount_path = mp,
                             ![e].local_path = mp]
         /\ Return(e)

\* PreprocessMountDisk, lines 65-79: the partition node, the mount command,
\* and the return into preprocess().
MountStep(e) ==
  /\ pc[e] = "mount"
  /\ IF ev[e].mount_partition = None
       THEN \* '{1:d}'.format(..., None) raises
            /\ Raise(e, "ValueError")
            /\ UNCHANGED <<ev, mounts, acq>>
       ELSE \E ok \in BOOLEAN :
              LET part == PathToPartition(ev[e]._losetup_device,
                                          ev[e].mount_partition)
              IN /\ acq' = [acq EXCEPT ![e] =
                              Append(@, Call("mount", part, mount_path[e], ok))]
                 /\ IF ok
                      THEN /\ mounts' = mounts \cup {mount_path[e]}
                           /\ Publish(e, mount_path[e])
                      ELSE /\ UNCHANGED <<mounts, ev>>
                           /\ Raise(e, "TurbiniaException")
  /\ mount_path' = [mount_path EXCEPT ![e] = None]
  /\ UNCHANGED <<loops, dirs, mount_root, cloud, snap, rel, ncalls>>
  /\ UNCHANGED elsewhere

\* ------------------------------------------------------------ postprocess
\* A postprocess that deletes the loop device attribute __init__ declares.
PostprocessLoopDevice_Declared(r) == r._loopdevice_path

\* RawDisk.postprocess, line 210: the attribute handed to
\* PostprocessDeleteLosetup.
PostprocessLoopDevice(r) == r._losetup_device

\* A postprocess that forgets to reset local_path.
ClearLoopDevice_KeepsPath(r) == [r EXCEPT !._losetup_device = None]

\* RawDisk.postprocess, lines 211-212:
\*   self._losetup_device = None
\*   self.local_path = None
ClearLoopDevice(r) == [r EXCEPT !._losetup_device = None, !.local_path = None]

\* A worker calls ev[e].postprocess().  GoogleCloudDiskRawEmbedded.postprocess
\* (line 284) calls super().post(), a method no parent class has: the call
\* raises AttributeError before any release step.
PostprocessBegin(e) ==
  /\ pc[e] = "idle"
  /\ ncalls < MaxCalls
  /\ ncalls' = ncalls + 1
  /\ rel' = [rel EXCEPT ![e] = <<>>]
  /\ LET paired == last[e].call = "preprocess" /\ last[e].exc = "none"
     IN IF ev[e].type = "GoogleCloudDiskRawEmbedded"
          THEN /\ last' = [last EXCEPT ![e] = [call |-> "postprocess",
                              exc |-> "AttributeError", paired |-> paired]]
               /\ UNCHANGED pc
          ELSE /\ last' = [last EXCEPT ![e] = [call |-> "postprocess",
                              exc |-> "running", paired |-> paired]]
               /\ pc' = [pc EXCEPT ![e] = "umount"]
  /\ UNCHANGED <<ev, mount_path, host, snap, acq>>
  /\ UNCHANGED elsewhere

\* RawDisk.postprocess, lines 208-209: PostprocessUnmountPath (the umount
\* command, then os.rmdir), then self._disk_mount_path = None
UnmountStep(e) ==
  /\ pc[e] = "umount"
  /\ \E o \in PostprocessUnmountPath(ev[e]._disk_mount_path, mounts) :
       /\ rel' = [rel EXCEPT ![e] =
                    IF o.ran
                      THEN Append(@, Call("umount", None, ev[e]._disk_mount_path, o.ok))
                      ELSE @]
       /\ mounts' = IF o.ok THEN mounts \ {ev[e]._disk_mount_path} ELSE mounts
       /\ IF o.exc = "none"
            THEN /\ \E removed \in Rmdir(ev[e]._disk_mount_path, dirs, mounts') :
                      dirs' = IF removed THEN dirs \ {ev[e]._disk_mount_path} ELSE dirs
                 /\ ev' = [ev EXCEPT ![e]._disk_mount_path = None]
                 /\ Goto(e, "losetup_d")
            ELSE /\ UNCHANGED <<dirs, ev>>
                 /\ Raise(e, o.exc)
  /\ UNCHANGED <<mount_path, loops, mount_root, cloud, snap, acq, ncalls>>
  /\ UNCHANGED elsewhere

\* RawDisk.postprocess, lines 210-212: PostprocessDeleteLosetup, then
\* self._losetup_device = None and self.local_path = None.  For a RawDisk
\* this ends postprocess(); a GoogleCloudDisk goes on to the detach.
DeleteLosetupStep(e) ==
  /\ pc[e] = "losetup_d"
  /\ \E o \in PostprocessDeleteLosetup(PostprocessLoopDevice(ev[e]), loops) :
       /\ rel' = [rel EXCEPT ![e] =
                    IF o.ran
                      THEN Append(@, Call("losetup_d", None,
                                          PostprocessLoopDevice(ev[e]), o.ok))
                      ELSE @]
       /\ loops' = IF o.ok THEN loops \ {PostprocessLoopDevice(ev[e])} ELSE loops
       /\ IF o.exc = "none"
            THEN /\ ev' = [ev EXCEPT ![e] = ClearLoopDevice(@)]
                 /\ IF ev[e].type \in CloudVariants
                      THEN Goto(e, "detach")
                      ELSE Return(e)
            ELSE /\ UNCHANGED ev
                 /\ Raise(e, o.exc)
  /\ UNCHANGED <<mount_path, dirs, mounts, mount_root, cloud, snap, acq, ncalls>>
  /\ UNCHANGED elsewhere

\* GoogleCloudDisk.postprocess, lines 258-259:
\*   google_cloud.PostprocessDetachDisk(self.disk_name, self.local_path)
\*   self.local_path = None
DetachStep(e) ==
  /\ pc[e] = "detach"
  /\ \E o \in PostprocessDetachDisk(ev[e].disk_name, ev[e].local_path, cloud) :
       /\ rel' = [rel EXCEPT ![e] =
                    Append(@, Call("detach", ev[e].disk_name, ev[e].local_path,
                                   o.exc = "none"))]
       /\ cloud' = o.left
       /\ IF o.exc = "none"
            THEN /\ ev' = [ev EXCEPT ![e].local_path = None]
                 /\ Return(e)
            ELSE /\ UNCHANGED ev
                 /\ Raise(e, o.exc)
  /\ UNCHANGED <<mount_path, loops, dirs, mounts, mount_root, snap, acq, ncalls>>
  /\ UNCHANGED elsewhere

\* ---------------------------------------------------------- specification
Next ==
  \E e \in Evidences :
    \/ PreprocessBegin(e)
    \/ AttachStep(e)
    \/ LoSetupStep(e)
    \/ MkdtempStep(e)
    \/ MountStep(e)
    \/ PostprocessBegin(e)
    \/ UnmountStep(e)
    \/ DeleteLosetupStep(e)
    \/ DetachStep(e)

Spec == Init /\ [][Next]_vars

\* ------------------------------------------------- lifecycle vocabulary
Idle(e) == pc[e] = "idle"

\* The last call on e was a preprocess() that returned: e is Bound.
Bound(e) ==
  Idle(e) /\ last[e].call = "preprocess" /\ last[e].exc = "none"

\* The last call on e was a preprocess() that raised.
PreprocessFailed(e) ==
  Idle(e) /\ last[e].call = "preprocess" /\ last[e].exc # "none"

\* The last call on e was a postprocess() called right after a successful
\* preprocess(), and it has ended (returned or raised).
PostprocessEnded(e) ==
  Idle(e) /\ last[e].call = "postprocess" /\ last[e].paired

\* ... and it returned.
PostprocessReturned(e) == PostprocessEnded(e) /\ last[e].exc = "none"

\* The calls of log s with operation op, in order.
CallsOf(s, op) == SelectSeq(s, LAMBDA c : c.op = op)

\* The operations of log s, in order.
Ops(s) == [i \in 1..Len(s) |-> s[i].op]

Reverse(s) == [i \in 1..Len(s) |-> s[Len(s) + 1 - i]]

\* The release operation that undoes an acquisition operation.
ReleaseOf(op) ==
  CASE op = "attach"  -> "detach"
    [] op = "losetup" -> "losetup_d"
    [] op = "mount"   -> "umount"

\* ---------------------------------------------------------------- claims

\* C1: for a RawDisk, when preprocess() attached the loop device and then
\* raised (the mount step failed), the loop device it attached is no longer
\* attached once preprocess() has ended.
C1_LoopReleasedWhenMountFails ==
  \A e \in Evidences :
    ( /\ ev[e].type = "RawDisk"
      /\ PreprocessFailed(e)
      /\ CallsOf(acq[e], "losetup") # <<>>
      /\ CallsOf(acq[e], "losetup")[1].ok )
    => CallsOf(acq[e], "losetup")[1].dst \notin loops

\* C2: whenever preprocess() raises, for every variant and whichever step
\* failed, local_path is None.
C2_LocalPathUnsetWhenPreprocessRaises ==
  \A e \in Evidences : PreprocessFailed(e) => ev[e].local_path = None

\* C3: a postprocess() of a preprocessed RawDisk never raises and always
\* attempts the loop-device deletion after the unmount, whether or not the
\* umount command or the losetup -d command failed.
C3_BestEffortTeardown ==
  \A e \in Evidences :
    (ev[e].type = "RawDisk" /\ PostprocessEnded(e))
    => /\ last[e].exc = "none"
       /\ Ops(rel[e]) = <<"umount", "losetup_d">>

\* C3 witness: a RawDisk postprocess() has returned although both the umount
\* and the losetup -d commands failed.
C3_Witness ==
  \E e \in Evidences :
    /\ ev[e].type = "RawDisk"
    /\ PostprocessReturned(e)
    /\ Len(rel[e]) = 2
    /\ ~rel[e][1].ok
    /\ ~rel[e][2].ok

C5_ReleasesExactlyTheAcquiredChain ==
  \A e \in Evidences :
    ev[e].type \in {"RawDisk", "GoogleCloudDisk"}
    => LET lo == CallsOf(acq[e], "losetup")
           mo == CallsOf(acq[e], "mount")
       IN /\ Bound(e) => /\ Len(lo) = 1 /\ Len(mo) = 1
                         /\ ev[e].local_path = mo[1].dst
          /\ PostprocessEnded(e)
             => /\ Len(lo) = 1 /\ Len(mo) = 1
                /\ [i \in 1..Len(CallsOf(rel[e], "umount")) |->
                      CallsOf(rel[e], "umount")[i].dst] = <<mo[1].dst>>
                /\ [i \in 1..Len(CallsOf(rel[e], "losetup_d")) |->
                      CallsOf(rel[e], "losetup_d")[i].dst] = <<lo[1].dst>>
                /\ ev[e].type = "RawDisk" => Len(rel[e]) = 2

\* C5 witness: a RawDisk postprocess() has unmounted a directory and deleted
\* a loop device.
C5_Witness ==
  \E e \in Evidences :
    /\ ev[e].type = "RawDisk"
    /\ PostprocessReturned(e)
    /\ Len(rel[e]) = 2
    /\ rel[e][1].ok
    /\ rel[e][2].ok

\* C6: for every evidence instance, the release calls of a postprocess() that
\* follows a successful preprocess() are the acquisition calls of that
\* preprocess() in reverse order (unmount, loop delete, cloud detach).
C6_ReleaseIsReverseOfAcquisition ==
  \A e \in Evidences :
    PostprocessEnded(e)
    => Ops(rel[e]) = [i \in 1..Len(acq[e]) |-> ReleaseOf(Reverse(Ops(acq[e]))[i])]

\* C7: in GoogleCloudDisk.preprocess(), the source path given to the loop
\* attach is the block device path the cloud attach returned.
C7_LoopAttachRunsOnAttachedDevice ==
  \A e \in Evidences :
    ev[e].type \in CloudVariants
    => \A i \in 1..Len(acq[e]) :
         acq[e][i].op = "losetup"
         => /\ acq[e][1].op = "attach"
            /\ acq[e][i].src = acq[e][1].dst

\* C8: postprocess() on a successfully preprocessed
\* GoogleCloudDiskRawEmbedded issues the unmount, the loop delete and the
\* cloud detach and leaves local_path unset.
C8_EmbeddedPostprocessDelegates ==
  \A e \in Evidences :
    (ev[e].type = "GoogleCloudDiskRawEmbedded" /\ PostprocessEnded(e))
    => /\ Ops(rel[e]) = <<"umount", "losetup_d", "detach">>
       /\ ev[e].local_path = None

\* C9: between lifecycle calls, local_path is non-null only if the last call
\* was a successful preprocess().
C9_LocalPathOnlyWhileBound ==
  \A e \in Evidences :
    (Idle(e) /\ ev[e].local_path # None) => Bound(e)

\* C10: two evidence instances that are Bound at the same time never have the
\* same mount directory or local_path, and two preprocess() calls in flight
\* never hold the same fresh mount directory.
C10_MountDirectoriesDistinct ==
  \A e1, e2 \in Evidences :
    e1 # e2
    => /\ (Bound(e1) /\ Bound(e2))
          => /\ ev[e1]._disk_mount_path # ev[e2]._disk_mount_path
             /\ ev[e1].local_path # ev[e2].local_path
       /\ mount_path[e1] # None
          => /\ mount_path[e1] # mount_path[e2]
             /\ Bound(e2) => mount_path[e1] # ev[e2]._disk_mount_path

\* C10 witness: two evidence instances are Bound at the same time under the
\* shared mount root.
C10_Witness ==
  \E e1, e2 \in Evidences :
    /\ e1 # e2
    /\ Bound(e1) /\ Bound(e2)
    /\ ev[e1]._disk_mount_path \in MountDirs
    /\ ev[e2]._disk_mount_path \in MountDirs

\* ======================================================================
\* serialize / evidence_decode (turbinia/evidence.py)
\* ======================================================================

\* The lifecycle part of the state while no lifecycle call is running.
LifecycleAtRest ==
  /\ ev = [e \in Evidences |-> Construct(e, "RawDisk", None, None, "img.raw")]
  /\ pc = [e \in Evidences |-> "idle"]
  /\ mount_path = [e \in Evidences |-> None]
  /\ loops = {}
  /\ dirs = {}
  /\ mounts = {}
  /\ mount_root = "absent"
  /\ cloud = {}
  /\ last = [e \in Evidences |-> [call |-> "construct", exc |-> "none", paired |-> FALSE]]
  /\ snap = ev
  /\ acq = [e \in Evidences |-> <<>>]
  /\ rel = [e \in Evidences |-> <<>>]
  /\ ncalls = 0
  /\ context = NoContext

\* The evidence classes the module turbinia.evidence defines.
EvidenceClasses ==
  {"Evidence", "Directory", "RawDisk", "EncryptedDisk", "GoogleCloudDisk",
   "GoogleCloudDiskRawEmbedded", "PlasoFile", "PlasoCsvFile", "ReportText",
   "TextFile", "FilteredTextFile", "ExportedFileArtifact"}

\* The other names bound in the module: what it imports and its function.
ImportedModules == {"json", "os", "sys", "config", "mount_local"}
ImportedClasses == {"TurbiniaException"}
ImportedFeatures == {"unicode_literals"}
ModuleFunctions == {"evidence_decode"}

ModuleNames ==
  EvidenceClasses \cup ImportedModules \cup ImportedClasses
    \cup ImportedFeatures \cup ModuleFunctions

\* A dict with no keys.
EmptyDict == [k \in {} |-> None]

\* A Python object: its class and its __dict__.
Object(class, dict) == [class |-> class, dict |-> dict]
NoObject == Object(None, EmptyDict)

\* obj.key: Absent stands for the AttributeError of a missing attribute.
GetAttr(obj, key) == IF key \in DOMAIN obj.dict THEN obj.dict[key] ELSE Absent

\* dict.get(key, default)
DictGet(dict, key, default) == IF key \in DOMAIN dict THEN dict[key] ELSE default

\* "not value" for the values a type key is given here.
Falsy(value) == value \in {None, ""}

\* Evidence.__init__ called by a subclass constructor.
EvidenceInit(type, name, local_path) ==
  [ copyable        |-> "False",
    config          |-> "{}",
    cloud_only      |-> "False",
    description     |-> None,
    source          |-> None,
    local_path      |-> local_path,
    tags            |-> "{}",
    request_id      |-> None,
    processed_by    |-> "[]",
    type            |-> type,
    name            |-> IF name = None THEN type ELSE name,
    saved_path      |-> None,
    saved_path_type |-> None ]

\* RawDisk.__init__ on top of Evidence.__init__.
RawDiskFields(type, name, local_path) ==
  [ mount_partition  |-> None,
    path_to_disk     |-> local_path,
    size             |-> None,
    _loopdevice_path |-> None,
    _disk_mount_path |-> None ] @@ EvidenceInit(type, name, local_path)

\* GoogleCloudDisk.__init__: cloud_only is set after RawDisk.__init__.
GoogleCloudDiskFields(type, name, local_path, disk_name) ==
  [ cloud_only |-> "True",
    project    |-> None,
    zone       |-> None,
    disk_name  |-> disk_name ] @@ RawDiskFields(type, name, local_path)

\* cls(arg, name=name, local_path=local_path): arg is the first parameter
\* the class itself declares (none for Evidence, Directory, TextFile and
\* FilteredTextFile); ExportedFileArtifact takes artifact_name and nothing
\* else.
New(cls, arg, name, local_path) ==
  Object(cls,
    CASE cls \in {"Evidence", "Directory"} ->
           EvidenceInit(cls, name, local_path)
      [] cls = "RawDisk" ->
           [mount_partition |-> arg] @@ RawDiskFields(cls, name, local_path)
      [] cls = "EncryptedDisk" ->
           [ encryption_type  |-> arg,
             encryption_key   |-> None,
             unencrypted_path |-> None ] @@ RawDiskFields(cls, name, local_path)
      [] cls = "GoogleCloudDisk" ->
           [project |-> arg]
             @@ GoogleCloudDiskFields(cls, name, local_path, None)
      [] cls = "GoogleCloudDiskRawEmbedded" ->
           [embedded_path |-> arg]
             @@ GoogleCloudDiskFields(cls, name, local_path, None)
      [] cls \in {"PlasoFile", "PlasoCsvFile"} ->
           [copyable |-> "True", plaso_version |-> arg]
             @@ EvidenceInit(cls, name, local_path)
      [] cls = "ReportText" ->
           [copyable |-> "True", text_data |-> arg]
             @@ EvidenceInit(cls, name, local_path)
      [] cls \in {"TextFile", "FilteredTextFile"} ->
           [copyable |-> "True"] @@ EvidenceInit(cls, name, local_path)
      [] cls = "ExportedFileArtifact" ->
           [copyable |-> "True", artifact_name |-> arg]
             @@ EvidenceInit(cls, None, None))

\* The classes whose constructor can be called with no argument.
DefaultConstructible == EvidenceClasses \ {"ExportedFileArtifact"}

\* cls(): what evidence_decode constructs.
NewDefault(cls) == New(cls, None, None, None)

\* The instances that get serialized.
ArgValues == {None, "v1"}
NameValues == {None, "name1"}
ArtifactNames == {"TomcatFile", "TomcatFiles"}

Instances ==
  { New(cls, arg, name, lp) :
      cls \in DefaultConstructible, arg \in ArgValues,
      name \in NameValues, lp \in SourcePaths }
  \cup { New("ExportedFileArtifact", a, None, None) : a \in ArtifactNames }

\* What is handed to evidence_decode: a Python value, its items when it is
\* a dict.
Value(pytype, items) == [pytype |-> pytype, items |-> items]

\* Evidence.serialize: the instance's __dict__.
serialize(obj) == Value("dict", obj.dict)

\* Envelopes that were not produced by serialize: values that are no dict,
\* and dicts with a few keys. A type key holds a module name, an unknown
\* name, an empty value or a value that is no string.
NonMappings == { Value(t, EmptyDict) : t \in {"list", "unicode", "NoneType"} }
NonStrings == {"<int 5>"}
TypeValues == ModuleNames \cup {"NoSuchType", "", None} \cup NonStrings
PartialFields ==
  { EmptyDict,
    [disk_name |-> "disk1", project |-> "proj", zone |-> "us-central1-f"],
    [artifact_name |-> "TomcatFile"] }

ForeignEnvelopes ==
  NonMappings
    \cup { Value("dict", f) : f \in PartialFields }
    \cup { Value("dict", [type |-> t] @@ f) : t \in TypeValues, f \in PartialFields }

\* How evidence_decode ends: the exception it raised ("none" when it
\* returned) and the object it returned.
Decoded(obj) == [exc |-> "none", obj |-> obj]
DecodeFault(exc) == [exc |-> exc, obj |-> NoObject]

\* evidence_decode: getattr on the module raises AttributeError for an
\* unknown name (turned into TurbiniaException) and TypeError for a name
\* that is no string; calling what getattr found raises TypeError for a
\* module, for evidence_decode itself (missing argument), for a
\* __future__ feature and for ExportedFileArtifact (missing
\* artifact_name); the returned object's __dict__ IS the envelope.
evidence_decode(evidence_dict) ==
  IF evidence_dict.pytype # "dict" THEN DecodeFault("TurbiniaException")
  ELSE LET type_ == DictGet(evidence_dict.items, "type", None) IN
    IF Falsy(type_) THEN DecodeFault("TurbiniaException")
    ELSE IF type_ \in NonStrings THEN DecodeFault("TypeError")
    ELSE IF type_ \notin ModuleNames THEN DecodeFault("TurbiniaException")
    ELSE IF type_ \in DefaultConstructible \cup ImportedClasses
      THEN Decoded(Object(type_, evidence_dict.items))
    ELSE DecodeFault("TypeError")

\* ------------------------------------------------------- codec actions
\* An instance is constructed.
CodecConstruct ==
  /\ codec.pc = "start"
  /\ \E obj \in Instances : codec' = [pc |-> "built", instance |-> obj]
  /\ UNCHANGED <<lifecycle, jobrun, taskrun>>

\* The instance is serialized.
CodecSerialize ==
  /\ codec.pc = "built"
  /\ codec' = [pc |-> "encoded", instance |-> codec.instance,
               envelope |-> serialize(codec.instance)]
  /\ UNCHANGED <<lifecycle, jobrun, taskrun>>

\* A value arrives that no serialize produced.
CodecReceive ==
  /\ codec.pc = "start"
  /\ \E v \in ForeignEnvelopes :
       codec' = [pc |-> "encoded", instance |-> NoObject, envelope |-> v]
  /\ UNCHANGED <<lifecycle, jobrun, taskrun>>

\* evidence_decode is called on the value.
CodecDecode ==
  /\ codec.pc = "encoded"
  /\ codec' = [pc |-> "decoded", instance |-> codec.instance,
               envelope |-> codec.envelope,
               outcome |-> evidence_decode(codec.envelope)]
  /\ UNCHANGED <<lifecycle, jobrun, taskrun>>

CodecInit ==
  /\ LifecycleAtRest
  /\ codec = NoExchange
  /\ jobrun = NoJobRun
  /\ taskrun = NoTaskRun

CodecNext ==
  \/ CodecConstruct
  \/ CodecSerialize
  \/ CodecReceive
  \/ CodecDecode

CodecSpec == CodecInit /\ [][CodecNext]_vars

\* An evidence_decode call has ended.
DecodeEnded == codec.pc = "decoded"

\* The value names no evidence variant: it is no dict, has no type key, or
\* its type is not the name of an evidence class.
NamesNoVariant(v) ==
  \/ v.pytype # "dict"
  \/ "type" \notin DOMAIN v.items
  \/ v.items["type"] \notin EvidenceClasses

\* C11: evidence_decode ends with TurbiniaException, and with no other
\* fault and no result, for every input that is no mapping, every mapping
\* without a type key, and every mapping whose type is not the name of an
\* evidence variant, other members of the evidence module included.
C11_InvalidEnvelopeRaisesTurbiniaException ==
  (DecodeEnded /\ NamesNoVariant(codec.envelope))
    => codec.outcome.exc = "TurbiniaException"

\* C12: for every evidence variant of the module, ExportedFileArtifact
\* included, decoding the serialized form of an instance returns an
\* instance of the same variant with every field equal.
C12_DecodeOfSerializeIsSameInstance ==
  (DecodeEnded /\ codec.instance # NoObject)
    => /\ codec.outcome.exc = "none"
       /\ codec.outcome.obj = codec.instance

\* C13: decoding an envelope that holds only some fields overlays its keys
\* on a freshly constructed instance: a field the envelope holds has the
\* envelope's value and a field it omits has the constructor's value (a
\* GoogleCloudDisk envelope with type, disk_name, project and zone gives
\* cloud_only = True and type = GoogleCloudDisk).
C13_OmittedFieldsKeepConstructorValues ==
  (/\ DecodeEnded
   /\ codec.envelope.pytype = "dict"
   /\ DictGet(codec.envelope.items, "type", None) \in DefaultConstructible)
    => /\ codec.outcome.exc = "none"
       /\ \A k \in DOMAIN NewDefault(codec.envelope.items["type"]).dict :
            GetAttr(codec.outcome.obj, k) =
              DictGet(codec.envelope.items, k,
                      NewDefault(codec.envelope.items["type"]).dict[k])

\* ======================================================================
\* create_tasks (turbinia/jobs/docker.py, turbinia/jobs/tomcat.py)
\* ======================================================================
MaxBatch == 2

\* evidence_input of each job.
evidence_input ==
  [ DockerContainersEnumerationJob |->
      {"GoogleCloudDisk", "GoogleCloudDiskRawEmbedded", "RawDisk"},
    TomcatExtractionJob |->
      {"Directory", "DockerContainer", "RawDisk", "GoogleCloudDisk",
       "GoogleCloudDiskRawEmbedded"},
    TomcatAnalysisJob |-> {"ExportedFileArtifact"} ]

Jobs == DOMAIN evidence_input

\* The evidence a batch is made of.
BatchItems ==
  { NewDefault(cls) : cls \in {"RawDisk", "GoogleCloudDisk", "Directory", "TextFile"} }
  \cup { New("ExportedFileArtifact", a, None, None) : a \in ArtifactNames }

Batches == UNION { [1..n -> BatchItems] : n \in 0..MaxBatch }

\* A task object: its class, its constructor argument, and the position
\* in the batch of the item it was created for.
Task(class, arg, item) == [class |-> class, arg |-> arg, item |-> item]

\* How create_tasks ends: the exception raised ("none" when it returned),
\* the list returned, and the evidence list as the call left it.
Created(tasks, evidence) == [exc |-> "none", tasks |-> tasks, evidence |-> evidence]
CreateFault(exc, evidence) == [exc |-> exc, tasks |-> <<>>, evidence |-> evidence]

\* enumerate(evidence): each item with its position.
Enumerate(evidence) ==
  [i \in 1..Len(evidence) |-> [item |-> i, evidence_item |-> evidence[i]]]

DockerCreateTasks_MarksProcessed(evidence) ==
  Created([i \in 1..Len(evidence) |->
             Task("DockerContainersEnumerationTask", None, i)],
          [i \in 1..Len(evidence) |->
             Object(evidence[i].class,
                    [processed_by |-> "[DockerContainersEnumerationJob]"]
                      @@ evidence[i].dict)])

\* DockerContainersEnumerationJob.create_tasks: one task for each element
\* of the list, whatever it is.
DockerCreateTasks(evidence) ==
  Created([i \in 1..Len(evidence) |->
             Task("DockerContainersEnumerationTask", None, i)],
          evidence)

TomcatExtractionCreateTasks_MatchesInput(evidence) ==
  LET Matches(x) == x.evidence_item.class \in evidence_input.TomcatExtractionJob
      kept == SelectSeq(Enumerate(evidence), Matches)
  IN Created([j \in 1..Len(kept) |->
                Task("FileArtifactExtractionTask", "TomcatFiles", kept[j].item)],
             evidence)

\* TomcatExtractionJob.create_tasks: one task for each element of the
\* list, whatever it is.
TomcatExtractionCreateTasks(evidence) ==
  Created([i \in 1..Len(evidence) |->
             Task("FileArtifactExtractionTask", "TomcatFiles", i)],
          evidence)

TomcatAnalysisCreateTasks_TakesAll(evidence) ==
  IF \E i \in 1..Len(evidence) : GetAttr(evidence[i], "artifact_name") = Absent
    THEN CreateFault("AttributeError", evidence)
    ELSE Created([i \in 1..Len(evidence) |-> Task("TomcatAnalysisTask", None, i)],
                 evidence)

\* TomcatAnalysisJob.create_tasks: the loop appends a task for an item
\* whose artifact_name is 'TomcatFile'; reading artifact_name of an item
\* that has none raises AttributeError out of the call.
TomcatAnalysisCreateTasks(evidence) ==
  LET IsTomcatFile(x) == GetAttr(x.evidence_item, "artifact_name") = "TomcatFile"
      kept == SelectSeq(Enumerate(evidence), IsTomcatFile)
  IN IF \E i \in 1..Len(evidence) : GetAttr(evidence[i], "artifact_name") = Absent
       THEN CreateFault("AttributeError", evidence)
       ELSE Created([j \in 1..Len(kept) |->
                       Task("TomcatAnalysisTask", None, kept[j].item)],
                    evidence)

\* -------------------------------------------------------- jobs actions
\* A batch of evidence arrives.
JobSubmit ==
  /\ jobrun.pc = "start"
  /\ \E b \in Batches : jobrun' = [pc |-> "submitted", batch |-> b]
  /\ UNCHANGED <<lifecycle, codec, taskrun>>

JobEnds(job, outcome) ==
  /\ jobrun.pc = "submitted"
  /\ jobrun' = [pc |-> "ended", batch |-> jobrun.batch, job |-> job,
                outcome |-> outcome]
  /\ UNCHANGED <<lifecycle, codec, taskrun>>

DockerContainersEnumerationJob_create_tasks ==
  JobEnds("DockerContainersEnumerationJob", DockerCreateTasks(jobrun.batch))

TomcatExtractionJob_create_tasks ==
  JobEnds("TomcatExtractionJob", TomcatExtractionCreateTasks(jobrun.batch))

TomcatAnalysisJob_create_tasks ==
  JobEnds("TomcatAnalysisJob", TomcatAnalysisCreateTasks(jobrun.batch))

JobsInit ==
  /\ LifecycleAtRest
  /\ codec = NoExchange
  /\ jobrun = NoJobRun
  /\ taskrun = NoTaskRun

JobsNext ==
  \/ JobSubmit
  \/ DockerContainersEnumerationJob_create_tasks
  \/ TomcatExtractionJob_create_tasks
  \/ TomcatAnalysisJob_create_tasks

JobsSpec == JobsInit /\ [][JobsNext]_vars

\* A create_tasks call of the job has ended.
CreateEnded(job) == jobrun.pc = "ended" /\ jobrun.job = job

\* The jobs whose create_tasks is a comprehension over the batch.
PerItemJobs == {"DockerContainersEnumerationJob", "TomcatExtractionJob"}

\* The positions of the batch whose item is of a type in the set.
ItemsOfType(batch, types) == {i \in 1..Len(batch) : batch[i].class \in types}

\* C14 as stated: create_tasks of DockerContainersEnumerationJob and of
\* TomcatExtractionJob returns no task for a batch whose items are all of
\* types outside the job's evidence_input, and one task per item for a
\* batch whose items are all of types in evidence_input.
C14_NoTaskForOtherTypes ==
  \A job \in PerItemJobs :
    CreateEnded(job) =>
      /\ ItemsOfType(jobrun.batch, evidence_input[job]) = {}
           => jobrun.outcome.tasks = <<>>
      /\ ItemsOfType(jobrun.batch, evidence_input[job]) = 1..Len(jobrun.batch)
           => Len(jobrun.outcome.tasks) = Len(jobrun.batch)

\* C14: create_tasks of DockerContainersEnumerationJob and of
\* TomcatExtractionJob returns exactly one task per item of the batch, in
\* batch order, whatever the types of the items.
C14_OneTaskPerItemWhateverItsType ==
  \A job \in PerItemJobs :
    CreateEnded(job) =>
      /\ jobrun.outcome.exc = "none"
      /\ Len(jobrun.outcome.tasks) = Len(jobrun.batch)
      /\ \A i \in 1..Len(jobrun.batch) : jobrun.outcome.tasks[i].item = i

C14_Witness ==
  /\ CreateEnded("TomcatExtractionJob")
  /\ Len(jobrun.batch) = 2
  /\ ItemsOfType(jobrun.batch, evidence_input.TomcatExtractionJob) = {1}
  /\ Len(jobrun.outcome.tasks) = 2

\* The positions of the batch whose item has the artifact name.
ItemsNamed(batch, name) ==
  {i \in 1..Len(batch) : GetAttr(batch[i], "artifact_name") = name}

\* C15: on a batch of exported file artifacts, create_tasks of
\* TomcatAnalysisJob returns exactly one task for each item whose
\* artifact_name is the expected value and none for any other item, so no
\* more tasks than items, and the tasks are in the order of their items.
C15_OneTaskPerMatchingArtifact ==
  (/\ CreateEnded("TomcatAnalysisJob")
   /\ ItemsOfType(jobrun.batch, evidence_input.TomcatAnalysisJob)
        = 1..Len(jobrun.batch))
    => LET tasks == jobrun.outcome.tasks IN
       /\ jobrun.outcome.exc = "none"
       /\ Len(tasks) <= Len(jobrun.batch)
       /\ {tasks[j].item : j \in 1..Len(tasks)} = ItemsNamed(jobrun.batch, "TomcatFile")
       /\ \A j, k \in 1..Len(tasks) : j < k => tasks[j].item < tasks[k].item
       /\ \A j \in 1..Len(tasks) : tasks[j].class = "TomcatAnalysisTask"

C15_Witness ==
  /\ CreateEnded("TomcatAnalysisJob")
  /\ Len(jobrun.batch) = 2
  /\ ItemsNamed(jobrun.batch, "TomcatFile") = {2}
  /\ ItemsNamed(jobrun.batch, "TomcatFiles") = {1}
  /\ Len(jobrun.outcome.tasks) = 1

\* C16: create_tasks of every job leaves the batch it was given unchanged:
\* the same items in the same order, every field of every item as before.
C16_CreateTasksLeavesBatchUnchanged ==
  \A job \in Jobs :
    CreateEnded(job) => jobrun.outcome.evidence = jobrun.batch

C16_Witness ==
  /\ CreateEnded("DockerContainersEnumerationJob")
  /\ Len(jobrun.batch) = 2
  /\ Len(jobrun.outcome.tasks) = 2
  /\ jobrun.outcome.evidence = jobrun.batch

\* ======================================================================
\* Task run (turbinia/workers/docker.py, turbinia/workers/strings.py)
\* ======================================================================
MaxContainers == 2

\* ------------------------------------------------------ the task result
\* A result nothing was recorded in. closes counts the close calls; late
\* tells that evidence or a log line was added after a close.
NewResult ==
  [ closed     |-> FALSE,
    closes     |-> 0,
    successful |-> None,
    status     |-> None,
    evidence   |-> <<>>,
    log        |-> <<>>,
    late       |-> FALSE ]

\* TurbiniaTaskResult.add_evidence: the evidence is appended, carrying the
\* config it was given.
add_evidence(result, evidence, evidence_config) ==
  [result EXCEPT
     !.evidence = Append(@, Object(evidence.class,
                                   [config |-> evidence_config] @@ evidence.dict)),
     !.late = @ \/ result.closed]

\* TurbiniaTaskResult.log: the line is appended.
log(result, message) ==
  [result EXCEPT !.log = Append(@, message), !.late = @ \/ result.closed]

\* TurbiniaTaskResult.close: the success flag and the status are captured.
close(result, success, status) ==
  [result EXCEPT !.closed = TRUE, !.closes = @ + 1,
                 !.successful = success, !.status = status]

\* DockerContainer(container_id=...): a fresh evidence, no resource bound.
DockerContainer(container_id) ==
  Object("DockerContainer",
         [container_id |-> container_id]
           @@ EvidenceInit("DockerContainer", None, None))

\* ------------------------------------------------- the evidence of a run
Configs == {"{}", "{'jobs_blacklist': ['StringsJob']}"}

\* A disk evidence as a worker hands it to run: mounted (is_mounted, its
\* mount path and its device path set) or not.
TaskEvidence(mounted, config) ==
  Object("RawDisk",
         [ is_mounted  |-> IF mounted THEN "True" ELSE "False",
           mount_path  |-> IF mounted THEN MountDirNames[1] ELSE None,
           device_path |-> IF mounted THEN LoopDevNames[1] ELSE None,
           config      |-> config ]
           @@ RawDiskFields("RawDisk", None,
                            IF mounted THEN MountDirNames[1] ELSE None))

TaskEvidences == { TaskEvidence(m, c) : m \in BOOLEAN, c \in Configs }

\* Evidence.__str__
Str(evidence) ==
  evidence.dict.type \o ":" \o evidence.dict.name \o ":" \o evidence.dict.local_path

\* os.path.basename of a device path.
Basename(path) ==
  CASE path = LoopDevNames[1] -> "loop0"
    [] OTHER -> path

\* --------------------------------------------- what docker-explorer prints
ContainerIds == {"abc", "def"}

\* One element of the printed array: an object whose container_id is a
\* string, null, a number or missing, or something that is no object.
JsonObject(container_id) == [json |-> "object", container_id |-> container_id]
JsonNumber == [json |-> "number", container_id |-> Absent]
JsonString == [json |-> "string", container_id |-> Absent]

Elements ==
  { JsonObject(id) : id \in ContainerIds \cup {None, Absent} \cup NonStrings }
  \cup {JsonNumber}

\* The printed document: text that is no JSON, an array, or another JSON
\* value. An object is given by its keys, which is what iterating it
\* yields.
Document(json, elements) == [json |-> json, elements |-> elements]

Documents ==
  { Document("array", a) : a \in UNION { [1..n -> Elements] : n \in 0..MaxContainers } }
  \cup { Document("invalid", <<>>), Document("number", <<>>), Document("null", <<>>),
         Document("object", <<>>), Document("object", <<JsonString>>) }

\* The host as the docker task finds it: the de.py scripts present, the
\* exit status of the command, and what it printed.
DockerTool(de_paths, exit, stdout) ==
  [de_paths |-> de_paths, exit |-> exit, stdout |-> stdout]

DockerTools ==
  { DockerTool(<<>>, "0", Document("array", <<>>)),
    DockerTool(<<"/usr/local/bin/de.py">>, "1", Document("invalid", <<>>)) }
  \cup { DockerTool(<<"/usr/local/bin/de.py">>, "0", d) : d \in Documents }

\* ' '.join(strings)
RECURSIVE Join(_)
Join(strings) ==
  IF strings = <<>> THEN ""
  ELSE IF Len(strings) = 1 THEN strings[1]
  ELSE strings[1] \o " " \o Join(Tail(strings))

\* The docker-explorer command line.
docker_explorer_command(evidence, tool) ==
  <<"sudo", tool.de_paths[1], "-r",
    PathJoin(evidence.dict.mount_path, "var/lib/docker"), "list", "all_containers">>

\* How GetContainers ends: the exception raised and its message, or the
\* parsed document; invoked tells whether the subprocess was started.
GotContainers(containers_info) ==
  [exc |-> "none", message |-> "", containers_info |-> containers_info, invoked |-> TRUE]
GetContainersFault(message, invoked) ==
  [exc |-> "TurbiniaException", message |-> message,
   containers_info |-> Document("null", <<>>), invoked |-> invoked]

\* DockerContainersEnumerationTask.GetContainers
GetContainers(evidence, tool) ==
  IF tool.de_paths = <<>>
    THEN GetContainersFault("Could not find docker-explorer script: de.py", FALSE)
  ELSE IF tool.exit # "0"
    THEN GetContainersFault(
           "Failed to run " \o Join(docker_explorer_command(evidence, tool))
             \o ": Command returned non-zero exit status " \o tool.exit, TRUE)
  ELSE IF tool.stdout.json = "invalid"
    THEN GetContainersFault(
           "Could not parse output of " \o Join(docker_explorer_command(evidence, tool))
             \o " : No JSON object could be decoded .", TRUE)
  ELSE GotContainers(tool.stdout)

AttachContainer_FreshConfig(result, container_id, evidence) ==
  add_evidence(result, DockerContainer(container_id), "{}")

\* The body of run's loop after the id is read: a DockerContainer is
\* constructed and added to the result with the input evidence's config.
AttachContainer(result, container_id, evidence) ==
  add_evidence(result, DockerContainer(container_id), evidence.dict.config)

\* run's loop from element i on: found is found_containers so far. An
\* element that is no object has no get (AttributeError); a missing
\* container_id reads as None.
RECURSIVE ForEachContainer(_, _, _, _, _)
ForEachContainer(result, found, evidence, containers_info, i) ==
  IF i > Len(containers_info.elements)
    THEN [exc |-> "none", result |-> result, found |-> found]
  ELSE IF containers_info.elements[i].json # "object"
    THEN [exc |-> "AttributeError", result |-> result, found |-> found]
  ELSE LET id == containers_info.elements[i].container_id
           container_id == IF id = Absent THEN None ELSE id
       IN ForEachContainer(AttachContainer(result, container_id, evidence),
                           Append(found, container_id), evidence,
                           containers_info, i + 1)

\* How run ends: the exception that left it ("none" when it returned), the
\* result as run left it, and whether the subprocess was started.
RunEnded(exc, result, invoked) ==
  [exc |-> exc, result |-> result, invoked |-> invoked]

DockerRun_IgnoresIsMounted(evidence, result, tool) ==
  LET got == GetContainers(evidence, tool)
  IN RunEnded("none",
              close(result, "False",
                    "Error enumerating Docker containers: " \o got.message),
              got.invoked)

\* DockerContainersEnumerationTask.run: only TurbiniaException is caught.
\* Iterating a number or null raises TypeError; joining ids that are not
\* all strings raises TypeError after the evidence was added.
DockerRun(evidence, result, tool) ==
  IF GetAttr(evidence, "is_mounted") = "True" THEN
    LET got == GetContainers(evidence, tool) IN
    IF got.exc # "none"
      THEN RunEnded("none",
                    close(result, "False",
                          "Error enumerating Docker containers: " \o got.message),
                    got.invoked)
    ELSE IF got.containers_info.json \in {"number", "null"}
      THEN RunEnded("TypeError", result, TRUE)
    ELSE
      LET loop == ForEachContainer(result, <<>>, evidence, got.containers_info, 1) IN
      IF loop.exc # "none" THEN RunEnded(loop.exc, loop.result, TRUE)
      ELSE IF \E j \in 1..Len(loop.found) :
                loop.found[j] \in {None} \cup NonStrings
        THEN RunEnded("TypeError", loop.result, TRUE)
      ELSE RunEnded("none",
                    close(loop.result, "True",
                          "Found " \o ToString(Len(loop.found)) \o " containers: "
                            \o Join(loop.found)),
                    TRUE)
  ELSE RunEnded("none",
                close(result, "False",
                      "Evidence " \o Str(evidence)
                        \o " did not expose a mounted file system"),
                FALSE)

\* ----------------------------------------------------- the strings tasks
\* The exit status of the strings command.
StringsTools == {"0", "1"}
output_dir == "/tmp/out"

\* TurbiniaTask.execute with new_evidence and close=True: a command that
\* fails is logged and the result closed as failed; otherwise the new
\* evidence is added and the result closed as successful.
execute(cmd, result, new_evidence, exit) ==
  IF exit # "0"
    THEN close(log(result, "Execution failed with status " \o exit), "False",
               "Execution failed with status " \o exit)
    ELSE close(add_evidence(result, new_evidence, "{}"), "True", None)

\* The output evidence of a strings task: a TextFile with its source_path.
StringsOutput(evidence, suffix) ==
  Object("TextFile",
         [source_path |->
            PathJoin(output_dir, Basename(evidence.dict.device_path) \o suffix)]
           @@ NewDefault("TextFile").dict)

StringsAsciiRun_LogsAfterExecute(evidence, result, exit) ==
  LET output_evidence == StringsOutput(evidence, ".ascii")
      cmd == "strings -a -t d " \o evidence.dict.device_path \o " > "
               \o output_evidence.dict.source_path
  IN RunEnded("none",
              log(execute(cmd, result, output_evidence, exit),
                  "Running strings as [" \o cmd \o "]"),
              TRUE)

\* StringsAsciiTask.run: basename of a device path that is None raises.
StringsAsciiRun(evidence, result, exit) ==
  IF GetAttr(evidence, "device_path") \in {None, Absent}
    THEN RunEnded("AttributeError", result, FALSE)
  ELSE
    LET output_evidence == StringsOutput(evidence, ".ascii")
        cmd == "strings -a -t d " \o evidence.dict.device_path \o " > "
                 \o output_evidence.dict.source_path
    IN RunEnded("none",
                execute(cmd, log(result, "Running strings as [" \o cmd \o "]"),
                        output_evidence, exit),
                TRUE)

\* StringsUnicodeTask.run
StringsUnicodeRun(evidence, result, exit) ==
  IF GetAttr(evidence, "device_path") \in {None, Absent}
    THEN RunEnded("AttributeError", result, FALSE)
  ELSE
    LET output_evidence == StringsOutput(evidence, ".uni")
        cmd == "strings -a -t d -e l " \o evidence.dict.device_path \o " > "
                 \o output_evidence.dict.source_path
    IN RunEnded("none",
                execute(cmd, log(result, "Running strings as [" \o cmd \o "]"),
                        output_evidence, exit),
                TRUE)

\* -------------------------------------------------------- task actions
\* A worker is handed an evidence and an empty result.
TaskDispatch ==
  /\ taskrun.pc = "start"
  /\ \E e \in TaskEvidences : taskrun' = [pc |-> "ready", evidence |-> e]
  /\ UNCHANGED <<lifecycle, codec, jobrun>>

TaskEnds(task, tool, outcome) ==
  /\ taskrun' = [pc |-> "ended", evidence |-> taskrun.evidence, task |-> task,
                 tool |-> tool, outcome |-> outcome]
  /\ UNCHANGED <<lifecycle, codec, jobrun>>

DockerContainersEnumerationTask_run ==
  /\ taskrun.pc = "ready"
  /\ \E tool \in DockerTools :
       TaskEnds("DockerContainersEnumerationTask", tool,
                DockerRun(taskrun.evidence, NewResult, tool))

StringsAsciiTask_run ==
  /\ taskrun.pc = "ready"
  /\ \E exit \in StringsTools :
       TaskEnds("StringsAsciiTask", [exit |-> exit],
                StringsAsciiRun(taskrun.evidence, NewResult, exit))

StringsUnicodeTask_run ==
  /\ taskrun.pc = "ready"
  /\ \E exit \in StringsTools :
       TaskEnds("StringsUnicodeTask", [exit |-> exit],
                StringsUnicodeRun(taskrun.evidence, NewResult, exit))

TaskInit ==
  /\ LifecycleAtRest
  /\ codec = NoExchange
  /\ jobrun = NoJobRun
  /\ taskrun = NoTaskRun

TaskNext ==
  \/ TaskDispatch
  \/ DockerContainersEnumerationTask_run
  \/ StringsAsciiTask_run
  \/ StringsUnicodeTask_run

TaskSpec == TaskInit /\ [][TaskNext]_vars

\* A run of the task has ended, by returning or by raising.
RunOf(task) == taskrun.pc = "ended" /\ taskrun.task = task

\* The evidence of the run exposes a mounted file system.
Mounted == GetAttr(taskrun.evidence, "is_mounted") = "True"

\* The subprocess ran, exited with 0 and printed a JSON array of objects
\* that each carry a string container_id.
PrintsContainers(tool) ==
  /\ tool.de_paths # <<>>
  /\ tool.exit = "0"
  /\ tool.stdout.json = "array"
  /\ \A i \in 1..Len(tool.stdout.elements) :
       /\ tool.stdout.elements[i].json = "object"
       /\ tool.stdout.elements[i].container_id \in ContainerIds

\* The container ids of the printed array, in its order.
PrintedIds(tool) ==
  [i \in 1..Len(tool.stdout.elements) |-> tool.stdout.elements[i].container_id]

\* C17: DockerContainersEnumerationTask.run on mounted evidence whose
\* subprocess prints a JSON array of n container objects ends with the
\* result closed as successful, holding exactly n derived evidence items
\* whose container_id values are the ids of the array in its order, each
\* attached with the config of the originating evidence, and with a status
\* that reports the count n.
C17_OneDerivedEvidencePerContainer ==
  (RunOf("DockerContainersEnumerationTask") /\ Mounted /\ PrintsContainers(taskrun.tool))
    => LET result == taskrun.outcome.result
           ids == PrintedIds(taskrun.tool)
       IN /\ taskrun.outcome.exc = "none"
          /\ result.closed
          /\ result.successful = "True"
          /\ Len(result.evidence) = Len(ids)
          /\ \A i \in 1..Len(ids) :
               /\ result.evidence[i].class = "DockerContainer"
               /\ result.evidence[i].dict.container_id = ids[i]
               /\ result.evidence[i].dict.config = taskrun.evidence.dict.config
          /\ result.status =
               "Found " \o ToString(Len(ids)) \o " containers: " \o Join(ids)

C17_Witness ==
  /\ RunOf("DockerContainersEnumerationTask")
  /\ Mounted
  /\ PrintsContainers(taskrun.tool)
  /\ PrintedIds(taskrun.tool) = <<"abc", "def">>
  /\ taskrun.evidence.dict.config # "{}"
  /\ taskrun.outcome.result.closed
  /\ taskrun.outcome.result.status = "Found 2 containers: abc def"
  /\ Len(taskrun.outcome.result.evidence) = 2

\* C18: DockerContainersEnumerationTask.run on evidence whose is_mounted
\* is false ends with the result closed with success false and no derived
\* evidence, and the subprocess is never started.
C18_UnmountedEvidenceClosesAsFailed ==
  (RunOf("DockerContainersEnumerationTask") /\ ~Mounted)
    => /\ taskrun.outcome.exc = "none"
       /\ taskrun.outcome.result.closed
       /\ taskrun.outcome.result.successful = "False"
       /\ taskrun.outcome.result.evidence = <<>>
       /\ ~taskrun.outcome.invoked

C18_Witness ==
  /\ RunOf("DockerContainersEnumerationTask")
  /\ ~Mounted
  /\ PrintsContainers(taskrun.tool)
  /\ Len(taskrun.tool.stdout.elements) = 2
  /\ taskrun.outcome.result.closed
  /\ taskrun.outcome.result.status =
       "Evidence RawDisk:RawDisk:None did not expose a mounted file system"

\* C19: every DockerContainersEnumerationTask.run on mounted evidence
\* returns with the result closed, whatever the subprocess does; when the
\* tool is missing, exits with a non-zero status, prints text that is no
\* JSON, or prints JSON that is not an array of objects with a string
\* container_id each, the result is closed with success false and a
\* status, and no fault leaves run.
C19_MountedRunAlwaysCloses ==
  (RunOf("DockerContainersEnumerationTask") /\ Mounted)
    => /\ taskrun.outcome.exc = "none"
       /\ taskrun.outcome.result.closed
       /\ ~PrintsContainers(taskrun.tool)
            => /\ taskrun.outcome.result.successful = "False"
               /\ taskrun.outcome.result.status \notin {None, ""}

\* The tasks whose run is modelled.
Tasks == {"DockerContainersEnumerationTask", "StringsAsciiTask", "StringsUnicodeTask"}

\* C20: in every run of the container-enumeration task and of the two
\* strings tasks the result is closed at most once, and no evidence is
\* attached and no log line appended after it was closed.
C20_ClosedAtMostOnceAndLast ==
  \A task \in Tasks :
    RunOf(task) => /\ taskrun.outcome.result.closes <= 1
                   /\ ~taskrun.outcome.result.late

C20_Witness ==
  /\ RunOf("StringsAsciiTask")
  /\ taskrun.outcome.result.closes = 1
  /\ Len(taskrun.outcome.result.log) = 1
  /\ Len(taskrun.outcome.result.evidence) = 1
  /\ ~taskrun.outcome.result.late

\* ======================================================================
\* copy_context (turbinia/evidence.py)
\* ======================================================================

\* RawDisk.copy_context(target_evidence), lines 192-196: five assignments
\* to the target (size is not part of the record here).  The loop attribute
\* copied is _loopdevice_path, which no preprocess() assigns; the attribute
\* preprocess() and postprocess() use, _losetup_device, is not copied.
copy_context(self, target_evidence) ==
  [target_evidence EXCEPT
     !.mount_partition  = self.mount_partition,
     !.path_to_disk     = self.path_to_disk,
     !._disk_mount_path = self._disk_mount_path,
     !._loopdevice_path = self._loopdevice_path]

\* A task calls ev[s].copy_context(ev[t]) with a preprocessed source and a
\* freshly constructed target; context[t] keeps both as they were.
CopyContext(s, t) ==
  /\ s # t
  /\ pc[s] = "idle" /\ last[s].call = "preprocess" /\ last[s].exc = "none"
  /\ pc[t] = "idle" /\ last[t].call = "construct"
  /\ ~context[t].copied
  /\ ev' = [ev EXCEPT ![t] = copy_context(ev[s], ev[t])]
  /\ context' = [context EXCEPT ![t] =
                   [copied |-> TRUE, source |-> ev[s], target |-> ev[t]]]
  /\ UNCHANGED <<pc, mount_path, host, last, snap, acq, rel, ncalls>>
  /\ UNCHANGED <<codec, jobrun, taskrun>>

\* The lifecycle calls together with copy_context.  An instance that was
\* given a context is not preprocessed itself: it is only cleaned up.
CopyNext ==
  \/ \E s, t \in Evidences : CopyContext(s, t)
  \/ \E e \in Evidences :
       \/ ~context[e].copied /\ PreprocessBegin(e)
       \/ AttachStep(e)
       \/ LoSetupStep(e)
       \/ MkdtempStep(e)
       \/ MountStep(e)
       \/ PostprocessBegin(e)
       \/ UnmountStep(e)
       \/ DeleteLosetupStep(e)
       \/ DetachStep(e)

CopySpec == Init /\ [][CopyNext]_vars

\* t was given a context and nothing was called on it since.
ContextCopied(t) == context[t].copied /\ last[t].call = "construct"

\* t was given a context and its postprocess() has ended.
ContextCleanedUp(t) ==
  context[t].copied /\ pc[t] = "idle" /\ last[t].call = "postprocess"

\* The log holds a call of the operation on the target.
Issued(s, op, dst) == \E i \in 1..Len(s) : s[i].op = op /\ s[i].dst = dst

\* C21: after source.copy_context(target), with the source preprocessed and
\* the target freshly constructed, the base fields of the target are as
\* before, and target.postprocess() returns without raising after an unmount
\* of the source's mount directory and a loop-delete of the source's loop
\* device.
C21_TargetCleansUpSourceResources ==
  \A t \in Evidences :
    /\ ContextCopied(t) =>
         /\ ev[t].local_path = context[t].target.local_path
         /\ ev[t].type = context[t].target.type
    /\ ContextCleanedUp(t) =>
         /\ last[t].exc = "none"
         /\ Issued(rel[t], "umount", context[t].source._disk_mount_path)
         /\ Issued(rel[t], "losetup_d", context[t].source._losetup_device)

\* ======================================================================
\* postprocess() and what the instance holds (turbinia/evidence.py)
\* ======================================================================

\* C22: when postprocess() of a GoogleCloudDisk, called after its
\* preprocess() returned, invokes the cloud detach, it passes the disk name
\* and the block device path the cloud attach returned in that preprocess(),
\* not an emptied local_path.
C22_DetachGetsAttachedDevice ==
  \A e \in Evidences :
    (PostprocessEnded(e) /\ ev[e].type = "GoogleCloudDisk")
      => \A i \in 1..Len(rel[e]) :
           rel[e][i].op = "detach"
             => /\ rel[e][i].src = ev[e].disk_name
                /\ rel[e][i].dst # None
                /\ rel[e][i].dst = CallsOf(acq[e], "attach")[1].dst

\* The postprocess() that ended on e was the first lifecycle call at all:
\* e was never preprocessed.
NeverPreprocessed(e) ==
  Idle(e) /\ last[e].call = "postprocess" /\ ncalls = 1

\* The postprocess() that ended on e was called again after the
\* postprocess() that followed e's successful preprocess().
PostprocessedAgain(e) ==
  /\ Idle(e) /\ last[e].call = "postprocess" /\ ~last[e].paired
  /\ acq[e] # <<>>
  /\ \A i \in 1..Len(acq[e]) : acq[e][i].ok
  /\ acq[e][Len(acq[e])].op = "mount"

\* C23: postprocess() on a RawDisk that holds nothing, because it was never
\* preprocessed or because a postprocess() already completed, returns
\* without raising, issues no unmount and no loop-delete command, and
\* leaves the instance without mount directory and local path binding.
C23_PostprocessOnUnboundIsSafe ==
  \A e \in Evidences :
    (ev[e].type = "RawDisk" /\ (NeverPreprocessed(e) \/ PostprocessedAgain(e)))
      => /\ last[e].exc = "none"
         /\ rel[e] = <<>>
         /\ ev[e]._disk_mount_path = None

\* ======================================================================
\* Envelopes and instances as objects (turbinia/evidence.py)
\* ======================================================================

\* Two dict objects are enough: the one at hand and a freshly made one.
\* heap[r] is the content of dict object r.
Refs == {"dict1", "dict2"}

\* Evidence.serialize, line 119, return self.__dict__: the dict object
\* returned is the instance's own, not a new one.
SerializedDict(self_dict, new_dict) == self_dict

\* evidence_decode, line 64, evidence.__dict__ = evidence_dict: the dict
\* object of the returned instance is the envelope, not the one the
\* constructor filled.
DecodedDict(evidence_dict, constructed_dict) == evidence_dict

\* The values a field is set to after the exchange: what preprocess() and
\* postprocess() assign to local_path.
AssignedPaths == {None, MountDirNames[1]}

\* instance.serialize() is called: the instance's attributes are dict1.
EnvelopeSerialize ==
  /\ codec.pc = "start"
  /\ \E obj \in Instances :
       LET heap == [r \in Refs |-> obj.dict]
           envelope == SerializedDict("dict1", "dict2")
       IN codec' = [pc |-> "serialized", heap |-> heap,
                    class |-> obj.class, instance |-> "dict1",
                    envelope |-> envelope,
                    envelope_was |-> heap[envelope],
                    instance_was |-> heap["dict1"]]
  /\ UNCHANGED <<lifecycle, jobrun, taskrun>>

\* evidence_decode is called on an envelope that is dict1; the instance it
\* constructs has its attributes in dict2.
EnvelopeDecode ==
  /\ codec.pc = "start"
  /\ \E v \in ForeignEnvelopes \cup {serialize(obj) : obj \in Instances} :
       /\ evidence_decode(v).exc = "none"
       /\ v.items["type"] \in DefaultConstructible
       /\ LET heap == [r \in Refs |->
                         IF r = "dict1" THEN v.items
                         ELSE NewDefault(v.items["type"]).dict]
              instance == DecodedDict("dict1", "dict2")
          IN codec' = [pc |-> "decoded", heap |-> heap,
                       class |-> evidence_decode(v).obj.class,
                       instance |-> instance, envelope |-> "dict1",
                       envelope_was |-> heap["dict1"],
                       instance_was |-> heap[instance]]
  /\ UNCHANGED <<lifecycle, jobrun, taskrun>>

\* A field of the instance is assigned, as preprocess() and postprocess()
\* do with local_path.
AssignField ==
  /\ codec.pc \in {"serialized", "decoded"}
  /\ \E value \in AssignedPaths :
       /\ value # GetAttr(Object(codec.class, codec.heap[codec.instance]), "local_path")
       /\ codec' = [codec EXCEPT
                      !.pc = "instance changed",
                      !.heap[codec.instance] = [local_path |-> value] @@ @]
  /\ UNCHANGED <<lifecycle, jobrun, taskrun>>

\* A key of the envelope is set by whoever holds the envelope.
SetItem ==
  /\ codec.pc = "decoded"
  /\ \E value \in AssignedPaths :
       /\ value # DictGet(codec.heap[codec.envelope], "local_path", Absent)
       /\ codec' = [codec EXCEPT
                      !.pc = "envelope changed",
                      !.heap[codec.envelope] = [local_path |-> value] @@ @]
  /\ UNCHANGED <<lifecycle, jobrun, taskrun>>

EnvelopeInit ==
  /\ LifecycleAtRest
  /\ codec = NoExchange
  /\ jobrun = NoJobRun
  /\ taskrun = NoTaskRun

EnvelopeNext ==
  \/ EnvelopeSerialize
  \/ EnvelopeDecode
  \/ AssignField
  \/ SetItem

EnvelopeSpec == EnvelopeInit /\ [][EnvelopeNext]_vars

\* C24: an envelope is independent of the evidence it describes: after a
\* field of the instance is assigned, the envelope that serialize()
\* returned, or that the instance was decoded from, is as it was; after a
\* key of the envelope is set, the instance that was decoded from it is as
\* it was.
C24_EnvelopeIndependentOfInstance ==
  /\ codec.pc = "instance changed"
       => codec.heap[codec.envelope] = codec.envelope_was
  /\ codec.pc = "envelope changed"
       => codec.heap[codec.instance] = codec.instance_was

\* ======================================================================
\* The Tomcat jobs together (turbinia/jobs/tomcat.py)
\* ======================================================================

\* The artifact name TomcatExtractionJob gives to the extraction tasks it
\* creates.
ExtractionArtifactName ==
  TomcatExtractionCreateTasks(<<NewDefault("RawDisk")>>).tasks[1].arg

\* The positions of the batch holding an artifact of the extraction job.
ExtractedItems(batch) ==
  ItemsOfType(batch, {"ExportedFileArtifact"})
    \cap ItemsNamed(batch, ExtractionArtifactName)

\* C25: for a batch made of artifacts that carry the artifact name
\* TomcatExtractionJob gives to its extraction tasks,
\* TomcatAnalysisJob.create_tasks creates one analysis task per artifact: n
\* artifacts of the extraction job yield n analysis tasks.
C25_ExtractedArtifactsAreAnalysed ==
  (/\ CreateEnded("TomcatAnalysisJob")
   /\ ExtractedItems(jobrun.batch) = 1..Len(jobrun.batch))
    => /\ jobrun.outcome.exc = "none"
       /\ Len(jobrun.outcome.tasks) = Len(jobrun.batch)
====
